---- MODULE Spec2Model ----
(***************************************************************************)
(* Model of generate_tax_brackets.py: the bracket normalizer               *)
(* (format_brackets), the document assembler (generate_tax_data) and the   *)
(* two output modes (main, print_js_format).                               *)
(*                                                                         *)
(* Python values are modelled as tagged records so that a number, the      *)
(* float infinity and a string never compare equal by accident:            *)
(*   kind "num"   : the finite rational num/den (gcd(num,den) = 1)         *)
(*   kind "float" : float('inf')                                           *)
(*   kind "str"   : the string s                                           *)
(***************************************************************************)
EXTENDS Integers, Sequences, FiniteSets, TLC

\* ------------------------------------------------------------------ bounds
MaxLen == 3        \* longest bracket sequence given to format_brackets
MaxRuns == 2       \* number of successive invocations of the script
MaxFailing == 1    \* failing provinces injected when the script is re-run

\* ------------------------------------------------------------ Python values
RECURSIVE Gcd(_, _)
Gcd(a, b) == IF b = 0 THEN a ELSE Gcd(b, a % b)

Rat(n, d) == [kind |-> "num", num |-> n \div Gcd(n, d), den |-> d \div Gcd(n, d), s |-> ""]
Num(n) == Rat(n, 1)
FloatInf == [kind |-> "float", num |-> 0, den |-> 1, s |-> "inf"]
Str(t) == [kind |-> "str", num |-> 0, den |-> 1, s |-> t]

\* Python's true division of a finite number by a positive integer
TrueDiv(x, k) == Rat(x.num, x.den * k)

\* ------------------------------------------------------- module constants
MutProvinceNames ==
  << <<"AB", "Alberta">>, <<"BC", "British Columbia">>, <<"MB", "Manitoba">>,
     <<"NB", "New Brunswick">>, <<"NL", "Newfoundland and Labrador">>,
     <<"NS", "Nova Scotia">>, <<"NT", "Northwest Territories">>,
     <<"NU", "Nunavut">>, <<"ON", "Ontario">>, <<"QC", "Quebec">>,
     <<"PE", "Prince Edward Island">>, <<"SK", "Saskatchewan">>, <<"YT", "Yukon">> >>

PROVINCE_NAMES ==
  << <<"AB", "Alberta">>, <<"BC", "British Columbia">>, <<"MB", "Manitoba">>,
     <<"NB", "New Brunswick">>, <<"NL", "Newfoundland and Labrador">>,
     <<"NS", "Nova Scotia">>, <<"NT", "Northwest Territories">>,
     <<"NU", "Nunavut">>, <<"ON", "Ontario">>, <<"PE", "Prince Edward Island">>,
     <<"QC", "Quebec">>, <<"SK", "Saskatchewan">>, <<"YT", "Yukon">> >>

PROVINCE_TO_CLASS ==
  << <<"AB", "AlbertaIncomeTaxRate">>, <<"BC", "BritishColumbiaIncomeTaxRate">>,
     <<"MB", "ManitobaIncomeTaxRate">>, <<"NB", "NewBrunswickIncomeTaxRate">>,
     <<"NL", "NewfoundlandIncomeTaxRate">>, <<"NS", "NovaScotiaIncomeTaxRate">>,
     <<"NT", "NorthwestTerritoriesIncomeTaxRate">>, <<"NU", "NunavutIncomeTaxRate">>,
     <<"ON", "OntarioIncomeTaxRate">>, <<"PE", "PEIIncomeTaxRate">>,
     <<"QC", "QuebecIncomeTaxRate">>, <<"SK", "SaskatchewanIncomeTaxRate">>,
     <<"YT", "YukonIncomeTaxRate">> >>

\* dict helpers: a dict is the sequence of its (key, value) items in
\* insertion order
DictKeys(d) == [i \in 1..Len(d) |-> d[i][1]]
DictHas(d, k) == \E i \in 1..Len(d) : d[i][1] = k
DictGet(d, k) == d[CHOOSE i \in 1..Len(d) : d[i][1] = k][2]

FederalClass == "FederalIncomeTaxRate"
ProvinceClasses == {PROVINCE_TO_CLASS[i][2] : i \in 1..Len(PROVINCE_TO_CLASS)}
ClassNames == {FederalClass} \cup ProvinceClasses

\* ---------------------------------------------------------- format_brackets
\* a raw bracket is the tuple <<rate_pct, max_val>>; index 1 is Python's 0

\* lines 91-94: min of the bracket at (1-based) index i
MutMinVal(brackets, i) == IF i = 1 THEN Num(0) ELSE brackets[i][2]
MinVal(brackets, i) == IF i = 1 THEN Num(0) ELSE brackets[i - 1][2]

\* line 97
MutRateDecimal(rate_pct) == rate_pct
RateDecimal(rate_pct) == TrueDiv(rate_pct, 100)

\* lines 100-103
MutMaxSerializable(max_val) == max_val
MaxSerializable(max_val) == IF max_val = FloatInf THEN Str("Infinity") ELSE max_val

\* lines 89-109: the loop, appending one record per input tuple
RECURSIVE FormatLoop(_, _, _)
FormatLoop(brackets, i, formatted) ==
  IF i > Len(brackets) THEN formatted
  ELSE FormatLoop(brackets, i + 1,
         Append(formatted, [min |-> MinVal(brackets, i),
                            max |-> MaxSerializable(brackets[i][2]),
                            rate |-> RateDecimal(brackets[i][1])]))

format_brackets(brackets) == FormatLoop(brackets, 1, <<>>)

\* ------------------------------------------------------------ serialisation
\* json.dump of one scalar: a number token, the bare token Infinity that
\* Python emits for float('inf'), or a quoted string
JsonScalar(v) ==
  IF v.kind = "str" THEN [tok |-> "string", num |-> 0, den |-> 1, text |-> v.s]
  ELSE IF v.kind = "float" THEN [tok |-> "number", num |-> 0, den |-> 1, text |-> "Infinity"]
  ELSE [tok |-> "number", num |-> v.num, den |-> v.den, text |-> ""]

JsonBrackets(bs) ==
  [i \in 1..Len(bs) |-> [min |-> JsonScalar(bs[i].min),
                         max |-> JsonScalar(bs[i].max),
                         rate |-> JsonScalar(bs[i].rate)]]

\* f-string interpolation of one scalar inside print_js_format: str() of the
\* value, without quotes
FStr(v) ==
  IF v.kind = "str" THEN [tok |-> "bare", num |-> 0, den |-> 1, text |-> v.s]
  ELSE IF v.kind = "float" THEN [tok |-> "bare", num |-> 0, den |-> 1, text |-> "inf"]
  ELSE [tok |-> "number", num |-> v.num, den |-> v.den, text |-> ""]

\* lines 275-276 and 286-287
JsBracketLine(b) ==
  LET max_val == IF b.max = Str("Infinity") THEN Str("Infinity") ELSE b.max
  IN  [min |-> FStr(b.min), max |-> FStr(max_val), rate |-> FStr(b.rate)]

JsBrackets(bs) == [i \in 1..Len(bs) |-> JsBracketLine(bs[i])]

\* lines 212-216 serialised by json.dump (line 238); dict items keep their
\* insertion order
JsonDump(doc) ==
  [year |-> JsonScalar(Num(doc.year)),
   federal |-> JsonBrackets(doc.federal),
   provincial |-> [i \in 1..Len(doc.provincial) |->
                    [key |-> doc.provincial[i][1],
                     name |-> JsonScalar(doc.provincial[i][2].name),
                     brackets |-> JsonBrackets(doc.provincial[i][2].brackets)]]]

\* lines 268-291: what print_js_format prints, line group by line group
JsRender(doc) ==
  [printed |-> TRUE,
   year |-> FStr(Num(doc.year)),
   federal |-> JsBrackets(doc.federal),
   provincial |-> [i \in 1..Len(doc.provincial) |->
                    [key |-> doc.provincial[i][1],
                     name |-> FStr(doc.provincial[i][2].name),
                     brackets |-> JsBrackets(doc.provincial[i][2].brackets)]]]

NoOutput == [printed |-> FALSE, year |-> FStr(Num(0)), federal |-> <<>>, provincial |-> <<>>]
NoDoc == [year |-> 0, federal |-> <<>>, provincial |-> <<>>]
AbsentFile == [state |-> "absent", doc |-> JsonDump(NoDoc)]
StaleFile == [state |-> "stale", doc |-> JsonDump(NoDoc)]

\* ------------------------------------------------------------- input domains
\* raw (rate_percentage, upper_bound) tuples as the provider documents them:
\* the rate is a percentage (15, 20.5), the bound a finite amount or inf
Rates == {Num(15), Rat(205, 10)}
Bounds == {Num(57375), Num(114750), FloatInf}
RawBrackets == Rates \X Bounds

\* upper bounds in ascending order (inf above every finite amount)
BoundLeq(a, b) == b = FloatInf \/ (a # FloatInf /\ a.num <= b.num)
IsAscending(bs) == \A i \in 2..Len(bs) : BoundLeq(bs[i - 1][2], bs[i][2])

BracketSeqs ==
  {bs \in UNION {[1..n -> RawBrackets] : n \in 0..MaxLen} : IsAscending(bs)}

\* the schedules the rate objects carry in a whole run
SampleSeqs == {<<>>, << <<Num(15), Num(57375)>>, <<Rat(205, 10), FloatInf>> >>}

ScriptName == "generate_tax_brackets.py"
ArgvSet == {<<ScriptName>>, <<ScriptName, "--js">>, <<ScriptName, "-v", "--js">>}

FirstYear == 2025
Years == FirstYear..(FirstYear + MaxRuns - 1)
MaxMissing == 1    \* classes absent from the rates module

\* a call result: Python None, or a value
None == [ok |-> FALSE, val |-> <<>>]
Some(v) == [ok |-> TRUE, val |-> v]
NoEntry == [ok |-> FALSE, val |-> [name |-> Str(""), brackets |-> <<>>]]

VARIABLES
  env,              \* the installed provider: importability, classes, schedules
  raised,           \* per province class: does its constructor raise
                    \* ("unknown" until it is first called)
  failBudget,       \* how many province constructors the environment may fail
  clock,            \* the calendar year the process would read from datetime
  argv,             \* sys.argv
  fs,               \* year -> content of tax_brackets_<year>.json
  fs0,              \* fs when the current process started
  pc,               \* position of the process
  mode,             \* "main" or "js" once dispatched
  tax_rate_classes, \* keys of the dict built in generate_tax_data
  federal,          \* result of get_federal_brackets
  provincial,       \* the dict being filled, as its items in insertion order
  idx,              \* position of the for loop over PROVINCE_NAMES.keys()
  tax_data,         \* the assembled document
  exit_code,        \* -1 while running
  stdout,           \* the source-literal rendering printed, if any
  opens,            \* open(output_file, 'w') calls of the current process
  queries,          \* rate classes instantiated by the current process, in order
  written,          \* file contents left by each completed write, oldest first
  runs,             \* ordinal of the current invocation
  fmtIn, fmtOut, fmtJson, fmtPc   \* format_brackets applied on its own

vars == <<env, raised, failBudget, clock, argv, fs, fs0, pc, mode,
          tax_rate_classes, federal, provincial, idx, tax_data, exit_code,
          stdout, opens, queries, written, runs, fmtIn, fmtOut, fmtJson, fmtPc>>

envVars == <<env, failBudget, clock, argv, runs>>
fmtVars == <<fmtIn, fmtOut, fmtJson, fmtPc>>
procVars == <<fs, fs0, pc, mode, tax_rate_classes, federal, provincial, idx,
              tax_data, exit_code, stdout, opens, queries, written, raised>>

\* ------------------------------------------------- the fetching functions
\* line 198: `if federal is None`
MutFederalIsNone(r) == FALSE
FederalIsNone(r) == ~r.ok

\* line 207: `if brackets:` on the dict get_provincial_brackets returned; a
\* dict with the keys name and brackets is truthy whatever they hold
MutTruthy(r) == r.ok /\ r.val.brackets # <<>>
Truthy(r) == r.ok

\* lines 165-170: the ImportError test of generate_tax_data
MutRatesImportError(e) == FALSE
RatesImportError(e) == ~e.rates

\* lines 259-263: the ImportError test of print_js_format
PkgImportError(e) == ~e.pkg

\* line 296
MutIsJsFlag(a) == \E i \in 2..Len(a) : a[i] = "--js"
IsJsFlag(a) == Len(a) > 1 /\ a[2] = "--js"

\* line 191: the year of the document
MutYearValue(now) == now
YearValue(now) == 2025

\* lines 123-128; raises: does instantiating or reading the object raise
get_federal_brackets(classes, raises, brackets) ==
  IF FederalClass \notin classes \/ raises THEN None
  ELSE Some(format_brackets(brackets))

\* lines 141-156
get_provincial_brackets(classes, province_code, raises, brackets) ==
  LET class_name == IF DictHas(PROVINCE_TO_CLASS, province_code)
                    THEN DictGet(PROVINCE_TO_CLASS, province_code) ELSE ""
  IN  IF class_name = "" \/ class_name \notin classes THEN NoEntry
      ELSE IF raises THEN NoEntry
      ELSE Some([name |-> Str(IF DictHas(PROVINCE_NAMES, province_code)
                               THEN DictGet(PROVINCE_NAMES, province_code)
                               ELSE province_code),
                 brackets |-> format_brackets(brackets)])

\* ------------------------------------------------------------------- Init
MissingSets == {m \in SUBSET ClassNames : Cardinality(m) <= MaxMissing}

\* pkg, rates: can `canatax` / its rates_2025 module be imported; missing: the
\* class names rates_2025 does not define; fedRaises: does instantiating or
\* reading the federal object raise; fed, prov: the brackets attribute of the
\* federal object and of every province object.  Data no run can observe
\* (nothing is queried when an import fails or a class is absent, no
\* schedule is read when federal raises) is fixed.
EnvSet ==
  {e \in [pkg : BOOLEAN, rates : BOOLEAN, missing : MissingSets,
          fedRaises : BOOLEAN, fed : SampleSeqs, prov : SampleSeqs] :
     /\ e.rates => e.pkg
     /\ ~e.rates => e.missing = {}
     /\ (~e.rates \/ e.missing # {}) => ~e.fedRaises
     /\ (~e.rates \/ e.missing # {} \/ e.fedRaises) => (e.fed = <<>> /\ e.prov = <<>>)}

ProcStart ==
  /\ pc = "start"
  /\ mode = "none"
  /\ tax_rate_classes = {}
  /\ federal = None
  /\ provincial = <<>>
  /\ idx = 0
  /\ tax_data = NoDoc
  /\ exit_code = -1
  /\ stdout = NoOutput
  /\ opens = 0
  /\ queries = <<>>

FmtIdle == fmtIn = <<>> /\ fmtOut = <<>> /\ fmtJson = <<>> /\ fmtPc = "idle"

InitEnv(budget) ==
  /\ env \in EnvSet
  /\ raised = [c \in ProvinceClasses |-> "unknown"]
  /\ failBudget = budget
  /\ clock = FirstYear
  /\ argv \in ArgvSet
  /\ fs \in {[y \in Years |-> IF y = FirstYear THEN f ELSE AbsentFile] :
              f \in {AbsentFile, StaleFile}}
  /\ fs0 = fs
  /\ written = <<>>
  /\ runs = 1

Init == InitEnv(Len(PROVINCE_NAMES)) /\ ProcStart /\ FmtIdle

InitRerun == InitEnv(MaxFailing) /\ ProcStart /\ FmtIdle

InitFmt ==
  /\ env = [pkg |-> TRUE, rates |-> TRUE, missing |-> {}, fedRaises |-> FALSE,
            fed |-> <<>>, prov |-> <<>>]
  /\ raised = [c \in ProvinceClasses |-> "unknown"]
  /\ failBudget = 0
  /\ clock = FirstYear
  /\ argv = <<ScriptName>>
  /\ fs = [y \in Years |-> AbsentFile]
  /\ fs0 = fs
  /\ written = <<>>
  /\ runs = 1
  /\ ProcStart
  /\ fmtIn \in BracketSeqs
  /\ fmtOut = <<>>
  /\ fmtJson = <<>>
  /\ fmtPc = "input"

\* ---------------------------------------------------------------- actions
Exit(code) == pc' = "exited" /\ exit_code' = code

\* lines 294-299
Dispatch ==
  /\ pc = "start"
  /\ mode' = IF IsJsFlag(argv) THEN "js" ELSE "main"
  /\ pc' = IF IsJsFlag(argv) THEN "js_import" ELSE "gen_import"
  /\ UNCHANGED <<envVars, fmtVars, fs, fs0, tax_rate_classes, federal,
                 provincial, idx, tax_data, exit_code, stdout, opens,
                 queries, written, raised>>

\* lines 259-263: print_js_format imports the package before anything else
JsImport ==
  /\ pc = "js_import"
  /\ IF PkgImportError(env) THEN Exit(1)
     ELSE pc' = "gen_import" /\ UNCHANGED exit_code
  /\ UNCHANGED <<envVars, fmtVars, fs, fs0, mode, tax_rate_classes, federal,
                 provincial, idx, tax_data, stdout, opens, queries, written,
                 raised>>

\* lines 165-170
GenImport ==
  /\ pc = "gen_import"
  /\ IF RatesImportError(env) THEN Exit(1)
     ELSE pc' = "build" /\ UNCHANGED exit_code
  /\ UNCHANGED <<envVars, fmtVars, fs, fs0, mode, tax_rate_classes, federal,
                 provincial, idx, tax_data, stdout, opens, queries, written,
                 raised>>

\* lines 173-188: each entry reads an attribute of the rates module; an
\* absent class raises AttributeError, which nothing catches
BuildClasses ==
  /\ pc = "build"
  /\ IF env.missing # {}
     THEN Exit(1) /\ UNCHANGED tax_rate_classes
     ELSE /\ tax_rate_classes' = ClassNames
          /\ pc' = "federal"
          /\ UNCHANGED exit_code
  /\ UNCHANGED <<envVars, fmtVars, fs, fs0, mode, federal, provincial, idx,
                 tax_data, stdout, opens, queries, written, raised>>

Outcome(b) == IF b THEN "yes" ELSE "no"
Failing == {c \in ProvinceClasses : raised[c] = "yes"}

\* lines 195-203
GetFederal ==
  /\ pc = "federal"
  /\ LET res == get_federal_brackets(tax_rate_classes, env.fedRaises, env.fed)
     IN  /\ federal' = res
         /\ IF FederalIsNone(res)
            THEN Exit(1) /\ UNCHANGED <<provincial, idx>>
            ELSE /\ provincial' = <<>>
                 /\ idx' = 1
                 /\ pc' = "prov"
                 /\ UNCHANGED exit_code
  /\ queries' = IF FederalClass \in tax_rate_classes
                THEN Append(queries, FederalClass) ELSE queries
  /\ UNCHANGED <<envVars, fmtVars, fs, fs0, mode, tax_rate_classes, tax_data,
                 stdout, opens, written, raised>>

\* lines 204-210: one iteration of the loop over PROVINCE_NAMES.keys()
GetProvincial ==
  /\ pc = "prov"
  /\ idx <= Len(PROVINCE_NAMES)
  /\ LET province_code == DictKeys(PROVINCE_NAMES)[idx]
         cls == DictGet(PROVINCE_TO_CLASS, province_code)
     IN  \E r \in BOOLEAN :
           /\ raised[cls] \in {"unknown", Outcome(r)}
           /\ (r /\ raised[cls] = "unknown") => Cardinality(Failing) < failBudget
           /\ raised' = [raised EXCEPT ![cls] = Outcome(r)]
           /\ queries' = IF cls \in tax_rate_classes
                         THEN Append(queries, cls) ELSE queries
           /\ LET brackets == get_provincial_brackets(tax_rate_classes,
                                                      province_code, r, env.prov)
              IN  provincial' = IF Truthy(brackets)
                                THEN Append(provincial, <<province_code, brackets.val>>)
                                ELSE provincial
  /\ idx' = idx + 1
  /\ UNCHANGED <<envVars, fmtVars, fs, fs0, pc, mode, tax_rate_classes,
                 federal, tax_data, exit_code, stdout, opens, written>>

\* lines 212-216, and the caller receiving the document (227 or 265)
ReturnDoc ==
  /\ pc = "prov"
  /\ idx > Len(PROVINCE_NAMES)
  /\ tax_data' = [year |-> YearValue(clock), federal |-> federal.val,
                  provincial |-> provincial]
  /\ pc' = IF mode = "js" THEN "print" ELSE "write"
  /\ UNCHANGED <<envVars, fmtVars, fs, fs0, mode, tax_rate_classes, federal,
                 provincial, idx, exit_code, stdout, opens, queries, written,
                 raised>>

\* lines 229-248: open tax_brackets_<year>.json for writing, dump, return
WriteFile ==
  /\ pc = "write"
  /\ LET year == tax_data.year
         content == [state |-> "json", doc |-> JsonDump(tax_data)]
     IN  /\ fs' = [fs EXCEPT ![year] = content]
         /\ written' = Append(written, content)
  /\ opens' = opens + 1
  /\ Exit(0)
  /\ UNCHANGED <<envVars, fmtVars, fs0, mode, tax_rate_classes, federal,
                 provincial, idx, tax_data, stdout, queries, raised>>

\* lines 266-291
PrintJs ==
  /\ pc = "print"
  /\ stdout' = JsRender(tax_data)
  /\ Exit(0)
  /\ UNCHANGED <<envVars, fmtVars, fs, fs0, mode, tax_rate_classes, federal,
                 provincial, idx, tax_data, opens, queries, written, raised>>

\* the same command line is run again against the same provider; the
\* calendar may have moved on
Rerun ==
  /\ pc = "exited"
  /\ runs < MaxRuns
  /\ runs' = runs + 1
  /\ clock' \in {clock, clock + 1}
  /\ fs0' = fs
  /\ pc' = "start"
  /\ mode' = "none"
  /\ tax_rate_classes' = {}
  /\ federal' = None
  /\ provincial' = <<>>
  /\ idx' = 0
  /\ tax_data' = NoDoc
  /\ exit_code' = -1
  /\ stdout' = NoOutput
  /\ opens' = 0
  /\ queries' = <<>>
  /\ UNCHANGED <<env, failBudget, argv, fs, written, raised, fmtVars>>

\* format_brackets applied to a bracket sequence on its own
CallFormat ==
  /\ fmtPc = "input"
  /\ fmtOut' = format_brackets(fmtIn)
  /\ fmtPc' = "formatted"
  /\ UNCHANGED <<envVars, procVars, fmtIn, fmtJson>>

\* json.dump (line 238) applied to the normalized records
CallJsonDump ==
  /\ fmtPc = "formatted"
  /\ fmtJson' = JsonBrackets(fmtOut)
  /\ fmtPc' = "dumped"
  /\ UNCHANGED <<envVars, procVars, fmtIn, fmtOut>>

Next ==
  \/ Dispatch
  \/ JsImport
  \/ GenImport
  \/ BuildClasses
  \/ GetFederal
  \/ GetProvincial
  \/ ReturnDoc
  \/ WriteFile
  \/ PrintJs

NextRerun == Next \/ Rerun

NextFmt == CallFormat \/ CallJsonDump

Spec == Init /\ [][Next]_vars
SpecRerun == InitRerun /\ [][NextRerun]_vars
SpecFmt == InitFmt /\ [][NextFmt]_vars

\* ================================================================ claims
ExpectedCodes == <<"AB", "BC", "MB", "NB", "NL", "NS", "NT", "NU", "ON", "PE",
                   "QC", "SK", "YT">>
ClassOf(code) == DictGet(PROVINCE_TO_CLASS, code)
OutputFile == fs[FirstYear]
Formatted == fmtPc \in {"formatted", "dumped"}

\* C1: if the federal rate object raises while it is instantiated or
\* normalized, the process ends at once with exit status 1, in either mode,
\* having opened no file for writing and left every file as it found it.
C1_FederalFailureFatal ==
  (env.fedRaises /\ Len(queries) >= 1) =>
     /\ pc = "exited"
     /\ exit_code = 1
     /\ opens = 0
     /\ written = <<>>
     /\ fs = fs0

C1_Witness ==
  /\ env.fedRaises
  /\ mode = "js"
  /\ queries = <<FederalClass>>
  /\ pc = "exited"
  /\ OutputFile.state = "stale"

\* C2 (as claimed): when federal does not fail, whatever set F of provinces
\* fails, by raising or by its class being absent from the rates module, a
\* finished run has exit status 0, a provincial map whose keys are the 13
\* codes minus F, and (default mode) a written file.
C2_FailedCodes ==
  {c \in {ExpectedCodes[i] : i \in 1..13} :
     ClassOf(c) \in env.missing \/ raised[ClassOf(c)] = "yes"}

C2_ProvincialFailuresSkipped ==
  (/\ pc = "exited"
   /\ env.rates
   /\ ~env.fedRaises
   /\ FederalClass \notin env.missing) =>
     /\ exit_code = 0
     /\ DictKeys(tax_data.provincial) =
          SelectSeq(ExpectedCodes, LAMBDA c : c \notin C2_FailedCodes)
     /\ mode = "main" => (opens = 1 /\ OutputFile.state = "json")

\* the part of C2 about provinces that raise, with every class present
C2_RaisingProvincesSkipped ==
  (/\ pc = "exited"
   /\ env.rates
   /\ ~env.fedRaises
   /\ env.missing = {}) =>
     /\ exit_code = 0
     /\ DictKeys(tax_data.provincial) =
          SelectSeq(ExpectedCodes, LAMBDA c : raised[ClassOf(c)] # "yes")
     /\ mode = "main" => (opens = 1 /\ OutputFile.state = "json")

C5_PerIndexTransform ==
  Formatted =>
     /\ Len(fmtOut) = Len(fmtIn)
     /\ \A i \in 1..Len(fmtIn) :
          /\ i <= Len(fmtOut)
          /\ fmtOut[i].min = (IF i = 1 THEN Num(0) ELSE fmtIn[i - 1][2])
          /\ fmtOut[i].rate.kind = "num"
          /\ fmtOut[i].rate.num * 100 * fmtIn[i][1].den
               = fmtIn[i][1].num * fmtOut[i].rate.den
          /\ fmtIn[i][1] = Num(15) =>
               (fmtOut[i].rate.num = 3 /\ fmtOut[i].rate.den = 20)
          /\ fmtIn[i][1] = Rat(205, 10) =>
               (fmtOut[i].rate.num = 41 /\ fmtOut[i].rate.den = 200)
          /\ fmtOut[i].max \in {fmtIn[i][2], Str("Infinity")}

C5_Witness ==
  /\ fmtPc = "formatted"
  /\ Len(fmtOut) = 3
  /\ fmtIn[1][1] = Num(15)
  /\ fmtIn[2][1] = Rat(205, 10)
  /\ fmtOut[3].min = Num(114750)

\* C6: zero brackets is not a failure: a federal object with no brackets
\* lets the run go on to exit status 0 with federal = [] in the document
\* (and in the file, in default mode), and every province whose object has
\* no brackets and does not raise is in the provincial map with
\* brackets = [].
C6_EmptyIsNotFailure ==
  /\ (env.fed = <<>> /\ ~env.fedRaises /\ Len(queries) >= 1) =>
       /\ federal = Some(<<>>)
       /\ exit_code # 1
       /\ pc = "exited" =>
            /\ exit_code = 0
            /\ tax_data.federal = <<>>
            /\ mode = "main" =>
                 (OutputFile.state = "json" /\ OutputFile.doc.federal = <<>>)
  /\ (env.prov = <<>> /\ pc \in {"prov", "write", "print", "exited"}) =>
       \A k \in 1..13 :
         (k < idx /\ raised[ClassOf(ExpectedCodes[k])] = "no") =>
            /\ DictHas(provincial, ExpectedCodes[k])
            /\ DictGet(provincial, ExpectedCodes[k]).brackets = <<>>

C6_Witness ==
  /\ pc = "exited"
  /\ exit_code = 0
  /\ mode = "main"
  /\ env.fed = <<>>
  /\ env.prov = <<>>
  /\ Len(tax_data.provincial) = 12
  /\ OutputFile.doc.federal = <<>>
  /\ Len(OutputFile.doc.provincial) = 12

\* C7: the classes instantiated so far are always a prefix of: federal,
\* then the classes of AB, BC, MB, NB, NL, NS, NT, NU, ON, PE, QC, SK, YT
\* (so federal is first and no class is instantiated twice); the provincial
\* map holds the successes among the provinces visited, in that order; a
\* file is opened, or the run succeeds, only after all 14 queries; nothing is
\* queried after a federal failure.
C7_ExpectedQueries ==
  <<FederalClass>> \o [i \in 1..13 |-> ClassOf(ExpectedCodes[i])]

C7_QueryOrder ==
  /\ Len(queries) <= 14
  /\ queries = SubSeq(C7_ExpectedQueries, 1, Len(queries))
  /\ pc = "prov" => Len(queries) = idx
  /\ (pc \in {"write", "print"} \/ opens > 0 \/ exit_code = 0) => Len(queries) = 14
  /\ env.fedRaises => Len(queries) <= 1
  /\ DictKeys(provincial) =
       SelectSeq(SubSeq(ExpectedCodes, 1, IF Len(queries) = 0 THEN 0 ELSE Len(queries) - 1),
                 LAMBDA c : raised[ClassOf(c)] = "no")

C7_Witness ==
  /\ pc = "exited"
  /\ exit_code = 0
  /\ opens = 1
  /\ Len(queries) = 14
  /\ DictKeys(provincial) = <<"AB", "NB", "PE", "QC", "YT">>

\* C8: if the rates module cannot be imported (the package is absent, or it
\* has no rates_2025), no class is ever built or instantiated, no file is
\* opened or changed, and the process ends with exit status 1, in either
\* mode.
C8_MissingDependencyFatal ==
  ~env.rates =>
     /\ pc \in {"start", "js_import", "gen_import", "exited"}
     /\ pc = "exited" => exit_code = 1
     /\ exit_code # 0
     /\ queries = <<>>
     /\ tax_rate_classes = {}
     /\ opens = 0
     /\ fs = fs0
     /\ ~stdout.printed

C8_Witness ==
  /\ env.pkg
  /\ ~env.rates
  /\ mode = "js"
  /\ pc = "exited"
  /\ exit_code = 1
  /\ OutputFile.state = "stale"

\* C9: a run whose first argument is --js never opens or changes a file and,
\* when it succeeds, has printed the assembled document (year, federal
\* brackets, provincial entries in order); any other run never prints the
\* rendering and, when it succeeds, has opened the file once and left in it
\* the JSON form of the same document, whatever the file held before.
C9_FirstArgIsJs == Len(argv) >= 2 /\ argv[2] = "--js"

C9_SameScalar(js, v) ==
  IF v.kind = "str" THEN js.tok = "bare" /\ js.text = v.s
  ELSE js.tok = "number" /\ js.text = "" /\ js.num = v.num /\ js.den = v.den

C9_SameBrackets(js, bs) ==
  /\ Len(js) = Len(bs)
  /\ \A i \in 1..Len(bs) :
       /\ C9_SameScalar(js[i].min, bs[i].min)
       /\ C9_SameScalar(js[i].max, bs[i].max)
       /\ C9_SameScalar(js[i].rate, bs[i].rate)

C9_ModesExclusive ==
  IF C9_FirstArgIsJs
  THEN /\ opens = 0
       /\ fs = fs0
       /\ written = <<>>
       /\ (pc = "exited" /\ exit_code = 0) =>
            /\ stdout.printed
            /\ stdout.year.num = 2025
            /\ tax_data.year = 2025
            /\ C9_SameBrackets(stdout.federal, tax_data.federal)
            /\ Len(stdout.provincial) = Len(tax_data.provincial)
            /\ \A i \in 1..Len(tax_data.provincial) :
                 /\ stdout.provincial[i].key = tax_data.provincial[i][1]
                 /\ C9_SameScalar(stdout.provincial[i].name,
                                  tax_data.provincial[i][2].name)
                 /\ C9_SameBrackets(stdout.provincial[i].brackets,
                                    tax_data.provincial[i][2].brackets)
  ELSE /\ ~stdout.printed
       /\ (pc = "exited" /\ exit_code = 0) =>
            /\ opens = 1
            /\ OutputFile.state = "json"
            /\ OutputFile.doc = JsonDump(tax_data)
            /\ tax_data.year = 2025

C9_Witness ==
  /\ C9_FirstArgIsJs
  /\ pc = "exited"
  /\ exit_code = 0
  /\ OutputFile.state = "stale"
  /\ Len(stdout.federal) = 2
  /\ Len(stdout.provincial) = 11
  /\ Len(stdout.provincial[1].brackets) = 2
  /\ stdout.provincial[1].brackets[2].max.text = "Infinity"

====
